---- MODULE Spec2Model ----
(***************************************************************************)
(* A model of weavebox (src/weavebox.go): the application and its          *)
(* subrouters (Box), the middleware slices they hold, route registration   *)
(* with prefix composition, and the dispatch of a request through the      *)
(* middleware chain, the terminal handler and the error handler.           *)
(*                                                                         *)
(* Routers are numbered: 0 is the application returned by New(), 1..nbox   *)
(* are the boxes returned by Subrouter, in creation order.  A Go slice is  *)
(* a header (arr, len, cap) over a backing array kept in heap; arr = 0 is  *)
(* the nil slice.  Strings are sequences of one-character strings.         *)
(* Handler values are identified by their registration: <<r, j>> is the    *)
(* j-th handler handed to Use on router r, and <<-1, k>> is the terminal    *)
(* handler of the k-th route registered.                                   *)
(***************************************************************************)
EXTENDS Integers, Sequences, FiniteSets, TLC

\* ------------------------------------------------------------------ bounds
\* boxes there is room for, and the handlers one Use call is given
MaxBox == 2
MaxArgs == 2
\* SpecChain: boxes, handlers handed to Use, routes
ChainBox == 1
ChainH == 3
ChainRoutes == 1
\* SpecSub: handlers handed to Use, routes
SubH == 5
SubRoutes == 1
\* SpecPath: routes
PathRoutesMax == 1
\* SpecConfig: boxes, handlers handed to Use, routes
ConfigBox == 1
ConfigH == 1
ConfigRoutes == 2
\* SpecContext: handlers handed to Use, routes
ContextH == 1
ContextRoutes == 1
\* SpecHandler: boxes, handlers handed to Use, routes
HandlerBox == 1
HandlerH == 1
HandlerRoutes == 1
\* SpecLate: boxes, handlers handed to Use, routes
LateBox == 2
LateH == 5
LateRoutes == 1
\* SpecLog: handlers handed to Use, routes
LogH == 1
LogRoutes == 1
\* SpecRouter: boxes, handlers handed to Use, routes
RouterBox == 2
RouterH == 1
RouterRoutes == 1

\* ------------------------------------------------------ program constants
StatusOK == 200
StatusMultipleChoices == 300
StatusTemporaryRedirect == 307
StatusInternalServerError == 500

Routers == 0..MaxBox
\* the request tasks there are, and the one a specification without
\* concurrent requests runs
Tasks == {1, 2}
ReqIds == {1}
Errs == {"e1", "e2"}
NilSlice == [arr |-> 0, len |-> 0, cap |-> 0]
NilH == <<0, 0>>
\* the terminal handler of the k-th route
TermH(k) == <<-1, k>>

VARIABLES
    nbox,            \* number of boxes created by Subrouter
    parent,          \* parent[b]: the router Subrouter was called on (history)
    args,            \* args[b]: the prefix arguments from the application down to b (history)
    prefix,          \* Weavebox.prefix
    middleware,      \* Weavebox.middleware, a slice header
    heap,            \* the backing arrays of the middleware slices
    nuse,            \* nuse[r]: number of handlers handed to Use on r (history)
    ErrorHandler,    \* Weavebox.ErrorHandler
    NotFoundHandler, \* Weavebox.NotFoundHandler
    templateEngine,  \* Weavebox.templateEngine
    context,         \* Weavebox.context
    EnableLog,       \* Weavebox.EnableLog
    bound,           \* bound[r]: BindContext was called on r itself (history)
    served,          \* Serve or ServeTLS was called (history)
    routerNotFound,  \* router.NotFound of the one httprouter.Router
    routes,          \* the routes of the one httprouter.Router, in registration order
    router,          \* Weavebox.router: the httprouter.Router it points to (0: nil)
    since,           \* since[b]: nuse[b] at the last Reset of b, -1 before one (history)
    req              \* req[q]: the request task q

vars == <<nbox, parent, args, prefix, middleware, heap, nuse, ErrorHandler,
          NotFoundHandler, templateEngine, context, EnableLog, bound, served, routerNotFound,
          routes, router, since, req>>

cfgvars == <<nbox, parent, args, prefix, middleware, heap, nuse, ErrorHandler,
             NotFoundHandler, templateEngine, context, EnableLog, bound, served, routerNotFound,
             routes, router, since>>

\* ------------------------------------------------------------ path.Join
RECURSIVE ElemEnd(_, _)
ElemEnd(path, r) ==
    IF r > Len(path) \/ path[r] = "/" THEN r ELSE ElemEnd(path, r + 1)

RECURSIVE Backtrack(_, _, _)
Backtrack(out, w, dotdot) ==
    IF w > dotdot /\ out[w + 1] # "/" THEN Backtrack(out, w - 1, dotdot)
    ELSE SubSeq(out, 1, w)

RECURSIVE CleanLoop(_, _, _, _, _)
CleanLoop(path, rooted, r, out, dotdot) ==
    LET n == Len(path) IN
    IF r > n THEN out
    ELSE IF path[r] = "/" THEN CleanLoop(path, rooted, r + 1, out, dotdot)
    ELSE IF path[r] = "." /\ (r = n \/ path[r + 1] = "/")
         THEN CleanLoop(path, rooted, r + 1, out, dotdot)
    ELSE IF path[r] = "." /\ path[r + 1] = "." /\ (r + 1 = n \/ path[r + 2] = "/")
         THEN IF Len(out) > dotdot
              THEN CleanLoop(path, rooted, r + 2, Backtrack(out, Len(out) - 1, dotdot), dotdot)
              ELSE IF ~rooted
                   THEN LET o2 == (IF Len(out) > 0 THEN Append(out, "/") ELSE out)
                                      \o <<".", ".">>
                        IN  CleanLoop(path, rooted, r + 2, o2, Len(o2))
                   ELSE CleanLoop(path, rooted, r + 2, out, dotdot)
    ELSE LET o1 == IF (rooted /\ Len(out) # 1) \/ (~rooted /\ Len(out) # 0)
                   THEN Append(out, "/") ELSE out
             e == ElemEnd(path, r)
         IN  CleanLoop(path, rooted, e, o1 \o SubSeq(path, r, e - 1), dotdot)

Clean(path) ==
    IF path = <<>> THEN <<".">>
    ELSE LET rooted == path[1] = "/"
             out == IF rooted THEN CleanLoop(path, TRUE, 2, <<"/">>, 1)
                    ELSE CleanLoop(path, FALSE, 1, <<>>, 0)
         IN  IF out = <<>> THEN <<".">> ELSE out

RECURSIVE JoinBuf(_, _)
JoinBuf(elem, buf) ==
    IF elem = <<>> THEN buf
    ELSE LET e == Head(elem)
             b == IF buf # <<>> THEN buf \o <<"/">> \o e
                  ELSE IF e # <<>> THEN e ELSE buf
         IN  JoinBuf(Tail(elem), b)

Join(elem) ==
    LET buf == JoinBuf(elem, <<>>) IN
    IF buf = <<>> THEN <<>> ELSE Clean(buf)

\* --------------------------------------------------------------- slices
GrowCap(c) == IF c = 0 THEN 1 ELSE 2 * c

\* the elements of slice s
Elems(hp, s) == IF s.arr = 0 THEN <<>> ELSE SubSeq(hp[s.arr], 1, s.len)

\* append(s, h): the pair <<heap, slice>> after it
AppendSlice(hp, s, h) ==
    IF s.len < s.cap
    THEN <<[hp EXCEPT ![s.arr][s.len + 1] = h],
           [s EXCEPT !.len = s.len + 1]>>
    ELSE LET c == GrowCap(s.cap)
             a == [i \in 1..c |-> IF i <= s.len THEN hp[s.arr][i]
                                  ELSE IF i = s.len + 1 THEN h ELSE NilH]
         IN  <<Append(hp, a), [arr |-> Len(hp) + 1, len |-> s.len + 1, cap |-> c]>>

RECURSIVE AppendAll(_, _, _)
AppendAll(hp, s, hs) ==
    IF hs = <<>> THEN <<hp, s>>
    ELSE LET st == AppendSlice(hp, s, Head(hs))
         IN  AppendAll(st[1], st[2], Tail(hs))

\* The garbage collector: the arrays no slice refers to are freed and the
\* rest keep their order; a slot beyond the length of every slice over its
\* array cannot be read before an append writes it, and is cleared.
Collect(hp, mw) ==
    LET live == {mw[r].arr : r \in Routers} \ {0}
        Rank(a) == Cardinality({b \in live : b <= a})
        Old(j) == CHOOSE a \in live : Rank(a) = j
        Seen(a, i) == \E r \in Routers : mw[r].arr = a /\ i <= mw[r].len
    IN  <<[j \in 1..Cardinality(live) |->
              [i \in 1..Len(hp[Old(j)]) |->
                  IF Seen(Old(j), i) THEN hp[Old(j)][i] ELSE NilH]],
          [r \in Routers |->
              IF mw[r].arr = 0 THEN mw[r] ELSE [mw[r] EXCEPT !.arr = Rank(@)]]>>

\* the middleware a request to a route of r runs
MwSeq(r) == Elems(heap, middleware[r])

\* ----------------------------------------------------------- the state
\* The response of a request: what the http.ResponseWriter of the server has
\* (status: the committed status code, 0 before the header is written; wh: the
\* code of the last WriteHeader call; loc: the Location header is set; ct: the
\* Content-Type header, "" when not set; sent: the Content-Type that went out
\* with the committed header; bytes: the body bytes it took) and the
\* responseLogger around it when there is one (lon), with its status and size
\* fields.
NewRW == [status |-> 0, wh |-> 0, loc |-> FALSE, ct |-> "", sent |-> "", bytes |-> 0,
          lon |-> FALSE, lstatus |-> 0, lsize |-> 0]

\* What a handler does: op names the Context method it calls ("none": it
\* calls none and returns res), code the status code it passes, n the bytes
\* the server reports written, res the result of the Renderer.
Act(op, code, n, res) == [op |-> op, code |-> code, n |-> n, res |-> res]

\* the last handler run of a request: what it did, what it returned, the
\* response before and after it and the templateEngine it found
NoOp == [act |-> Act("none", 0, 0, "nil"), ret |-> "nil", pre |-> NewRW,
         post |-> NewRW, eng |-> "nil"]

\* A request task: where it is (pc), the router whose ServeHTTP took it
\* (entry), the path it asks for (path), the router (w) and the route (h, 0
\* when none matched) of the handle the router chose, the context of its
\* Context (ctx), the slice the handle ranges over (arr, len) and the index it
\* is at (i), and its response (rw).
\* History: the handlers run (trace), the place in trace of the first that
\* failed (failed, 0 when none did) and what it returned (err), the calls of
\* the error handler (ehcalls), the not-found handler run (nf), the context of
\* the application when the Context was built (appctx), the last handler run
\* (last) and the access-log line (log).
IdleReq ==
    [pc |-> "idle", entry |-> 0, path |-> <<>>, w |-> 0, h |-> 0, ctx |-> "nil", appctx |-> "nil",
     arr |-> 0, len |-> 0, i |-> 0, trace |-> <<>>, failed |-> 0, err |-> "nil",
     ehcalls |-> <<>>, nf |-> "none", rw |-> NewRW, last |-> NoOp, log |-> <<>>]

\* New()
Init ==
    /\ nbox = 0
    /\ parent = [r \in Routers |-> 0]
    /\ args = [r \in Routers |-> <<>>]
    /\ prefix = [r \in Routers |-> <<>>]
    /\ middleware = [r \in Routers |-> NilSlice]
    /\ heap = <<>>
    /\ nuse = [r \in Routers |-> 0]
    /\ ErrorHandler = [r \in Routers |-> "default"]
    /\ NotFoundHandler = [r \in Routers |-> "nil"]
    /\ templateEngine = [r \in Routers |-> "nil"]
    /\ context = [r \in Routers |-> "nil"]
    /\ EnableLog = [r \in Routers |-> TRUE]
    /\ bound = [r \in Routers |-> FALSE]
    /\ served = FALSE
    /\ routerNotFound = "nil"
    /\ routes = <<>>
    /\ router = [r \in Routers |-> IF r = 0 THEN 1 ELSE 0]
    /\ since = [r \in Routers |-> -1]
    /\ req = [q \in Tasks |-> IdleReq]

Live == 0..nbox

\* The application is configured between requests, never while one is being
\* served: registration completes before serving and the application is
\* read-only under traffic (a caller contract, the code has no guard).
Quiet == \A q \in Tasks : req[q].pc = "idle"

\* ------------------------------------------------------- configuration
\* Use ranging over its handlers from the last to the first
UseReversed(r, k) ==
    /\ Quiet
    /\ r \in Live
    /\ LET hs == [j \in 1..k |-> <<r, nuse[r] + k + 1 - j>>]
           st == AppendAll(heap, middleware[r], hs)
           gc == Collect(st[1], [middleware EXCEPT ![r] = st[2]])
       IN  /\ heap' = gc[1]
           /\ middleware' = gc[2]
    /\ nuse' = [nuse EXCEPT ![r] = @ + k]
    /\ UNCHANGED <<router, since, nbox, parent, args, prefix, ErrorHandler, NotFoundHandler,
                   templateEngine, context, EnableLog, bound, served, routerNotFound,
                   routes, req>>

\* Use(handlers...) with k handlers
Use(r, k) ==
    /\ Quiet
    /\ r \in Live
    /\ LET hs == [j \in 1..k |-> <<r, nuse[r] + j>>]
           st == AppendAll(heap, middleware[r], hs)
           gc == Collect(st[1], [middleware EXCEPT ![r] = st[2]])
       IN  /\ heap' = gc[1]
           /\ middleware' = gc[2]
    /\ nuse' = [nuse EXCEPT ![r] = @ + k]
    /\ UNCHANGED <<router, since, nbox, parent, args, prefix, ErrorHandler, NotFoundHandler,
                   templateEngine, context, EnableLog, bound, served, routerNotFound,
                   routes, req>>

\* Subrouter giving the box a router of its own
SubrouterOwnRouter(r, p) ==
    /\ Quiet
    /\ r \in Live
    /\ nbox < MaxBox
    /\ LET b == nbox + 1 IN
       /\ nbox' = b
       /\ parent' = [parent EXCEPT ![b] = r]
       /\ args' = [args EXCEPT ![b] = Append(args[r], p)]
       /\ prefix' = [prefix EXCEPT ![b] = prefix[r] \o p]
       /\ middleware' = [middleware EXCEPT ![b] = middleware[r]]
       /\ ErrorHandler' = [ErrorHandler EXCEPT ![b] = ErrorHandler[r]]
       /\ NotFoundHandler' = [NotFoundHandler EXCEPT ![b] = NotFoundHandler[r]]
       /\ templateEngine' = [templateEngine EXCEPT ![b] = templateEngine[r]]
       /\ context' = [context EXCEPT ![b] = context[r]]
       /\ EnableLog' = [EnableLog EXCEPT ![b] = EnableLog[r]]
       /\ router' = [router EXCEPT ![b] = b + 1]
    /\ UNCHANGED <<since, heap, nuse, bound, served, routerNotFound, routes, req>>

\* Subrouter(p): b := &Box{*w}; b.prefix += p
Subrouter(r, p) ==
    /\ Quiet
    /\ r \in Live
    /\ nbox < MaxBox
    /\ LET b == nbox + 1 IN
       /\ nbox' = b
       /\ parent' = [parent EXCEPT ![b] = r]
       /\ args' = [args EXCEPT ![b] = Append(args[r], p)]
       /\ prefix' = [prefix EXCEPT ![b] = prefix[r] \o p]
       /\ middleware' = [middleware EXCEPT ![b] = middleware[r]]
       /\ ErrorHandler' = [ErrorHandler EXCEPT ![b] = ErrorHandler[r]]
       /\ NotFoundHandler' = [NotFoundHandler EXCEPT ![b] = NotFoundHandler[r]]
       /\ templateEngine' = [templateEngine EXCEPT ![b] = templateEngine[r]]
       /\ context' = [context EXCEPT ![b] = context[r]]
       /\ EnableLog' = [EnableLog EXCEPT ![b] = EnableLog[r]]
       /\ router' = [router EXCEPT ![b] = router[r]]
    /\ UNCHANGED <<since, heap, nuse, bound, served, routerNotFound, routes, req>>

\* Box.Reset()
Reset(b) ==
    /\ Quiet
    /\ b \in Live \ {0}
    /\ LET gc == Collect(heap, [middleware EXCEPT ![b] = NilSlice])
       IN  /\ heap' = gc[1]
           /\ middleware' = gc[2]
    /\ since' = [since EXCEPT ![b] = nuse[b]]
    /\ UNCHANGED <<router, EnableLog, nbox, parent, args, prefix, nuse, ErrorHandler,
                   NotFoundHandler, templateEngine, context, bound, served,
                   routerNotFound, routes, req>>

\* httprouter.Router.Handle on the router rt refuses a path without a leading
\* slash and a (method, path) it registered before: it panics and registers
\* nothing
Registered(rt, m, path) ==
    \E k \in 1..Len(routes) :
        routes[k].rt = rt /\ routes[k].method = m /\ routes[k].path = path

\* add(method, route, h), behind Get, Post, Put and Delete
add(r, m, route) ==
    /\ Quiet
    /\ r \in Live
    /\ LET path == Join(<<prefix[r], route>>) IN
       /\ path # <<>> /\ path[1] = "/"
       /\ ~Registered(router[r], m, path)
       /\ routes' = Append(routes, [rt |-> router[r], method |-> m, path |-> path,
                                    w |-> r, args |-> Append(args[r], route)])
    /\ UNCHANGED <<router, since, EnableLog, nbox, parent, args, prefix, middleware, heap, nuse,
                   ErrorHandler, NotFoundHandler, templateEngine, context, bound,
                   served, routerNotFound, req>>

\* BindContext(ctx)
BindContext(r, c) ==
    /\ Quiet
    /\ r \in Live
    /\ context' = [context EXCEPT ![r] = c]
    /\ bound' = [bound EXCEPT ![r] = TRUE]
    /\ UNCHANGED <<router, since, EnableLog, nbox, parent, args, prefix, middleware, heap, nuse,
                   ErrorHandler, NotFoundHandler, templateEngine, served,
                   routerNotFound, routes, req>>

\* SetTemplateEngine(t)
SetTemplateEngine(r, t) ==
    /\ Quiet
    /\ r \in Live
    /\ templateEngine' = [templateEngine EXCEPT ![r] = t]
    /\ UNCHANGED <<router, since, EnableLog, nbox, parent, args, prefix, middleware, heap, nuse,
                   ErrorHandler, NotFoundHandler, context, bound, served,
                   routerNotFound, routes, req>>

\* an assignment to ErrorHandler that reaches every router, as if they held
\* one handler between them
SetErrorHandlerShared(r, f) ==
    /\ Quiet
    /\ r \in Live
    /\ ErrorHandler' = [b \in Routers |-> IF b \in Live THEN f ELSE ErrorHandler[b]]
    /\ UNCHANGED <<router, since, EnableLog, nbox, parent, args, prefix, middleware, heap, nuse,
                   NotFoundHandler, templateEngine, context, bound, served,
                   routerNotFound, routes, req>>

\* w.ErrorHandler = f, an assignment to the exported field
SetErrorHandler(r, f) ==
    /\ Quiet
    /\ r \in Live
    /\ ErrorHandler' = [ErrorHandler EXCEPT ![r] = f]
    /\ UNCHANGED <<router, since, EnableLog, nbox, parent, args, prefix, middleware, heap, nuse,
                   NotFoundHandler, templateEngine, context, bound, served,
                   routerNotFound, routes, req>>

\* w.NotFoundHandler = f, an assignment to the exported field
SetNotFoundHandler(r, f) ==
    /\ Quiet
    /\ r \in Live
    /\ NotFoundHandler' = [NotFoundHandler EXCEPT ![r] = f]
    /\ UNCHANGED <<router, since, EnableLog, nbox, parent, args, prefix, middleware, heap, nuse,
                   ErrorHandler, templateEngine, context, bound, served,
                   routerNotFound, routes, req>>

\* w.EnableLog = b, an assignment to the exported field
SetEnableLog(r, b) ==
    /\ Quiet
    /\ r \in Live
    /\ EnableLog' = [EnableLog EXCEPT ![r] = b]
    /\ UNCHANGED <<router, since, nbox, parent, args, prefix, middleware, heap, nuse, ErrorHandler,
                   NotFoundHandler, templateEngine, context, bound, served,
                   routerNotFound, routes, req>>

\* init(): the only place router.NotFound is set
init(r) ==
    routerNotFound' = IF NotFoundHandler[r] # "nil" THEN NotFoundHandler[r]
                      ELSE routerNotFound

\* Serve(port) and ServeTLS(port, certFile, keyFile) up to the listener
Serve(r) ==
    /\ Quiet
    /\ r \in Live
    /\ init(r)
    /\ served' = TRUE
    /\ UNCHANGED <<router, since, EnableLog, nbox, parent, args, prefix, middleware, heap, nuse,
                   ErrorHandler, NotFoundHandler, templateEngine, context, bound,
                   routes, req>>

\* ------------------------------------------------------- the response
\* http.ResponseWriter.WriteHeader of the server: the first call commits
ServerWriteHeader(rw, code) ==
    [rw EXCEPT !.status = IF @ = 0 THEN code ELSE @,
               !.sent = IF rw.status = 0 THEN rw.ct ELSE @,
               !.wh = code]

\* http.ResponseWriter.Write of the server, reporting n bytes written
ServerWrite(rw, n) ==
    [rw EXCEPT !.status = IF @ = 0 THEN StatusOK ELSE @,
               !.sent = IF rw.status = 0 THEN rw.ct ELSE @,
               !.bytes = @ + n]

\* responseLogger.WriteHeader
responseLoggerWriteHeader(rw, code) ==
    [ServerWriteHeader(rw, code) EXCEPT !.lstatus = code]

\* responseLogger.Write keeping the size of the last write only
responseLoggerWriteLast(rw, n) ==
    LET l == IF rw.lstatus = 0 THEN [rw EXCEPT !.lstatus = StatusOK] ELSE rw
    IN  [ServerWrite(l, n) EXCEPT !.lsize = n]

\* responseLogger.Write
responseLoggerWrite(rw, n) ==
    LET l == IF rw.lstatus = 0 THEN [rw EXCEPT !.lstatus = StatusOK] ELSE rw
    IN  [ServerWrite(l, n) EXCEPT !.lsize = @ + n]

\* calls on the http.ResponseWriter a handler is given: the responseLogger
\* when ServeHTTP made one, the server's otherwise
WriteHeader(rw, code) ==
    IF rw.lon THEN responseLoggerWriteHeader(rw, code) ELSE ServerWriteHeader(rw, code)

Write(rw, n) ==
    IF rw.lon THEN responseLoggerWrite(rw, n) ELSE ServerWrite(rw, n)

\* http.Error(w, msg, code), the server reporting n bytes of msg written
httpError(rw, code, n) ==
    Write(WriteHeader([rw EXCEPT !.ct = "text/plain; charset=utf-8"], code), n)

\* http.Redirect(w, r, url, code), the server reporting n bytes of the note
\* written: it gives the note a Content-Type when the response has none
httpRedirect(rw, code, n) ==
    LET h == [rw EXCEPT !.loc = TRUE,
                        !.ct = IF @ = "" THEN "text/html; charset=utf-8" ELSE @]
    IN  Write(WriteHeader(h, code), n)

\* ---------------------------------------------------- Context methods
\* Redirect refusing the last redirection code too
RedirectOffByOne(rw, code, n) ==
    IF code < StatusMultipleChoices \/ code >= StatusTemporaryRedirect
    THEN [rw |-> rw, ret |-> "invalid redirect code"]
    ELSE [rw |-> httpRedirect(rw, code, n), ret |-> "nil"]

\* Context.Redirect(url, code)
Redirect(rw, code, n) ==
    IF code < StatusMultipleChoices \/ code > StatusTemporaryRedirect
    THEN [rw |-> rw, ret |-> "invalid redirect code"]
    ELSE [rw |-> httpRedirect(rw, code, n), ret |-> "nil"]

\* Context.Render(name, data) with templateEngine t, whose Render returns res:
\* a method call on the nil interface panics
Render(rw, t, res) ==
    IF t = "nil" THEN [rw |-> rw, ret |-> "panic"]
    ELSE [rw |-> rw, ret |-> res]

\* JSON that serializes before it commits the status, and commits nothing when
\* the serialization fails
JSONEncodeFirst(rw, code, n, res) ==
    IF res # "nil" THEN [rw |-> rw, ret |-> res]
    ELSE [rw |-> Write(WriteHeader([rw EXCEPT !.ct = "application/json"], code), n),
          ret |-> "nil"]

\* Context.JSON(code, v).  Encode returns res; it writes what it serialized in
\* one Write, of which the server reports n bytes written, and makes no Write
\* when v cannot be serialized (res is an error and n = 0).
JSON(rw, code, n, res) ==
    LET h == WriteHeader([rw EXCEPT !.ct = "application/json"], code)
    IN  [rw |-> IF res = "nil" \/ n > 0 THEN Write(h, n) ELSE h, ret |-> res]

\* Context.Text(code, text), the server reporting n bytes of text written
Text(rw, code, n) ==
    [rw |-> Write(WriteHeader([rw EXCEPT !.ct = "text/plain"], code), n), ret |-> "nil"]

\* What a handler does with its Context and what it returns: a handler that
\* calls a Context method returns what the method returned; one that calls
\* WriteHeader or Write on the Response returns res.
Handle(rw, w, act) ==
    CASE act.op = "none" -> [rw |-> rw, ret |-> act.res]
      [] act.op = "Redirect" -> Redirect(rw, act.code, act.n)
      [] act.op = "Render" -> Render(rw, templateEngine[w], act.res)
      [] act.op = "JSON" -> JSON(rw, act.code, act.n, act.res)
      [] act.op = "Text" -> Text(rw, act.code, act.n)
      [] act.op = "WriteHeader" -> [rw |-> WriteHeader(rw, act.code), ret |-> act.res]
      [] act.op = "Write" -> [rw |-> Write(rw, act.n), ret |-> act.res]

\* ------------------------------------------------------------ dispatch
Match(rt, m, path) ==
    {k \in 1..Len(routes) :
        routes[k].rt = rt /\ routes[k].method = m /\ routes[k].path = path}

\* ServeHTTP(rw, r) on router e, up to the router's choice of a handle
ServeHTTP(e, q, m, path) ==
    /\ e \in Live
    /\ req[q].pc = "idle"
    /\ LET hit == Match(router[e], m, path)
           rw == [NewRW EXCEPT !.lon = EnableLog[e]]
       IN  req' = [req EXCEPT ![q] =
                IF hit # {}
                THEN LET k == CHOOSE k \in hit : TRUE
                     IN  [IdleReq EXCEPT !.pc = "handle", !.entry = e, !.path = path,
                                         !.rw = rw, !.w = routes[k].w, !.h = k]
                ELSE [IdleReq EXCEPT !.pc = "notfound", !.entry = e, !.path = path,
                                     !.rw = rw]]
    /\ UNCHANGED cfgvars

\* the handle of makeHTTPRouterHandle, up to the range over w.middleware
Build(q) ==
    /\ req[q].pc = "handle"
    /\ LET w == req[q].w
           c == IF context[w] = "nil" THEN "bg" ELSE context[w]
       IN  /\ context' = [context EXCEPT ![w] = c]
           /\ req' = [req EXCEPT ![q].ctx = c,
                                 ![q].appctx = context[0],
                                 ![q].arr = middleware[w].arr,
                                 ![q].len = middleware[w].len,
                                 ![q].i = 1,
                                 ![q].pc = IF middleware[w].len > 0 THEN "mw" ELSE "term"]
    /\ UNCHANGED <<router, since, nbox, parent, args, prefix, middleware, heap, nuse,
                   ErrorHandler, NotFoundHandler, templateEngine, EnableLog, bound,
                   served, routerNotFound, routes>>

\* The same lines of the handle, statement by statement, for requests served
\* at once.  Racing(q): another task is at the assignment of line 173 to the
\* context field q is about to read.  A read that races with a write is a data
\* race: it may give the value before the write, the value written, or, the
\* field being an interface of two words, a value made of one word of each.
Racing(q) ==
    \E p \in Tasks \ {q} : req[p].pc = "lazy" /\ req[p].w = req[q].w

\* if w.context == nil
ContextCheck(q) ==
    /\ req[q].pc = "handle"
    /\ \E isnil \in BOOLEAN :
          /\ ~Racing(q) => (isnil <=> context[req[q].w] = "nil")
          /\ req' = [req EXCEPT ![q].pc = IF isnil THEN "lazy" ELSE "ctx"]
    /\ UNCHANGED cfgvars

\* w.context = context.Background()
ContextInit(q) ==
    /\ req[q].pc = "lazy"
    /\ context' = [context EXCEPT ![req[q].w] = "bg"]
    /\ req' = [req EXCEPT ![q].pc = "ctx"]
    /\ UNCHANGED <<router, since, nbox, parent, args, prefix, middleware, heap, nuse,
                   ErrorHandler, NotFoundHandler, templateEngine, EnableLog, bound,
                   served, routerNotFound, routes>>

\* ctx := &Context{Context: w.context, ...}, up to the range over w.middleware
ContextBuild(q) ==
    /\ req[q].pc = "ctx"
    /\ LET w == req[q].w IN
       \E c \in IF Racing(q) THEN {context[w], "bg", "torn"} ELSE {context[w]} :
           req' = [req EXCEPT ![q].ctx = c,
                              ![q].appctx = context[0],
                              ![q].arr = middleware[w].arr,
                              ![q].len = middleware[w].len,
                              ![q].i = 1,
                              ![q].pc = IF middleware[w].len > 0 THEN "mw" ELSE "term"]
    /\ UNCHANGED cfgvars

\* where a request goes after a handler returned ret
After(ret, next) ==
    IF ret = "nil" THEN next ELSE IF ret = "panic" THEN "panicked" ELSE "err"

\* a loop over w.middleware that goes on to the next handler after a failure
MiddlewareContinue(q, act) ==
    /\ req[q].pc = "mw"
    /\ LET r == req[q]
           o == Handle(r.rw, r.w, act)
       IN  req' = [req EXCEPT ![q] =
                [r EXCEPT !.trace = Append(@, heap[r.arr][r.i]),
                          !.last = [act |-> act, ret |-> o.ret, pre |-> r.rw,
                                    post |-> o.rw, eng |-> templateEngine[r.w]],
                          !.rw = o.rw,
                          !.i = @ + 1,
                          !.failed = IF o.ret # "nil" /\ @ = 0 THEN Len(r.trace) + 1 ELSE @,
                          !.err = IF o.ret \notin {"nil", "panic"} THEN o.ret ELSE @,
                          !.pc = IF r.i + 1 > r.len THEN "term" ELSE "mw"]]
    /\ UNCHANGED cfgvars

\* one turn of the loop over w.middleware
Middleware(q, act) ==
    /\ req[q].pc = "mw"
    /\ LET r == req[q]
           o == Handle(r.rw, r.w, act)
       IN  req' = [req EXCEPT ![q] =
                [r EXCEPT !.trace = Append(@, heap[r.arr][r.i]),
                          !.last = [act |-> act, ret |-> o.ret, pre |-> r.rw,
                                    post |-> o.rw, eng |-> templateEngine[r.w]],
                          !.rw = o.rw,
                          !.i = IF o.ret = "nil" THEN @ + 1 ELSE @,
                          !.failed = IF o.ret # "nil" /\ @ = 0 THEN Len(r.trace) + 1 ELSE @,
                          !.err = IF o.ret \notin {"nil", "panic"} THEN o.ret ELSE @,
                          !.pc = After(o.ret, IF r.i + 1 > r.len THEN "term" ELSE "mw")]]
    /\ UNCHANGED cfgvars

\* the route's own handler
Terminal(q, act) ==
    /\ req[q].pc = "term"
    /\ LET r == req[q]
           o == Handle(r.rw, r.w, act)
       IN  req' = [req EXCEPT ![q] =
                [r EXCEPT !.trace = Append(@, TermH(r.h)),
                          !.last = [act |-> act, ret |-> o.ret, pre |-> r.rw,
                                    post |-> o.rw, eng |-> templateEngine[r.w]],
                          !.rw = o.rw,
                          !.failed = IF o.ret # "nil" /\ @ = 0 THEN Len(r.trace) + 1 ELSE @,
                          !.err = IF o.ret \notin {"nil", "panic"} THEN o.ret ELSE @,
                          !.pc = After(o.ret, "ret")]]
    /\ UNCHANGED cfgvars

\* defaultErrorHandler writes the error with status 500; another one is the
\* application's and is taken to write nothing
RunErrorHandler(f, rw, n) ==
    IF f = "default" THEN httpError(rw, StatusInternalServerError, n) ELSE rw

\* the error handler called with the return after it missing
ErrorHandledNoReturn(q, n) ==
    /\ req[q].pc = "err"
    /\ LET r == req[q]
           f == ErrorHandler[r.w]
       IN  req' = [req EXCEPT ![q] =
                [r EXCEPT !.ehcalls = Append(@, [f |-> f, ctx |-> q, bg |-> r.ctx,
                                                 err |-> r.err]),
                          !.rw = RunErrorHandler(f, r.rw, n),
                          !.i = @ + 1,
                          !.pc = IF r.trace[Len(r.trace)] = TermH(r.h) THEN "ret"
                                 ELSE IF r.i + 1 > r.len THEN "term" ELSE "mw"]]
    /\ UNCHANGED cfgvars

\* w.ErrorHandler(ctx, err); return.  The Context of a request is the one its
\* handle built: it is named by the request.
ErrorHandled(q, n) ==
    /\ req[q].pc = "err"
    /\ LET r == req[q]
           f == ErrorHandler[r.w]
       IN  req' = [req EXCEPT ![q] =
                [r EXCEPT !.ehcalls = Append(@, [f |-> f, ctx |-> q, bg |-> r.ctx, err |-> r.err]),
                          !.rw = RunErrorHandler(f, r.rw, n),
                          !.pc = "ret"]]
    /\ UNCHANGED cfgvars

\* the router found no route: router.NotFound when set, http.NotFound (a 404
\* through http.Error) otherwise
NotFound(q, n) ==
    /\ req[q].pc = "notfound"
    /\ LET r == req[q]
           f == IF routerNotFound # "nil" THEN routerNotFound ELSE "default"
       IN  req' = [req EXCEPT ![q] =
                [r EXCEPT !.nf = f,
                          !.rw = IF f = "default" THEN httpError(r.rw, 404, n)
                                 ELSE r.rw,
                          !.pc = "ret"]]
    /\ UNCHANGED cfgvars

\* ServeHTTP after the router returned: the access-log line
Finish(q) ==
    /\ req[q].pc = "ret"
    /\ LET r == req[q] IN
       req' = [req EXCEPT ![q] =
                [r EXCEPT !.log = IF r.rw.lon
                                  THEN <<[status |-> r.rw.lstatus, size |-> r.rw.lsize]>>
                                  ELSE <<>>,
                          !.pc = "done"]]
    /\ UNCHANGED cfgvars

\* the request is over (a panic ends it in the server, past ServeHTTP)
End(q) ==
    /\ req[q].pc \in {"done", "panicked"}
    /\ req' = [req EXCEPT ![q] = IdleReq]
    /\ UNCHANGED cfgvars

\* ------------------------------------------------------------- inputs
Methods == {"GET"}
Missing == <<"/", "z">>
Paths == {routes[k].path : k \in 1..Len(routes)} \cup {Missing}
Returns == {Act("none", 0, 0, e) : e \in {"nil"} \cup Errs}
Prefixes == {<<"/", "s">>}
RoutePaths == {<<"/", "x">>}
ErrorHandlers == {"default", "eh1"}
\* an error handler only boxes are given
BoxErrorHandlers == {"eh2"}
NotFoundHandlers == {"nil", "nf1"}
Engines == {"nil", "t1"}
Contexts == {"c1", "c2"}
Codes == {0, 200, 299, 300, 302, 307, 308, 404}
Ns == {0, 1}
CtxActs ==
    {Act("Redirect", c, n, "nil") : c \in Codes, n \in Ns}
        \cup {Act("Render", 0, 0, e) : e \in {"nil", "e1"}}
\* the status codes handlers write, and what they do to the response
WriteCodes == {200, 201}
WriteActs ==
    {Act("JSON", c, n, e) : c \in WriteCodes, n \in Ns, e \in {"nil", "e1"}}
        \cup {Act("Text", c, n, "nil") : c \in WriteCodes, n \in Ns}
        \cup {Act("WriteHeader", c, 0, e) : c \in WriteCodes, e \in {"nil", "e1"}}
        \cup {Act("Write", 0, n, e) : n \in Ns, e \in {"nil", "e1"}}

\* ------------------------------------------------------ specifications
RECURSIVE Total(_, _)
Total(f, r) == IF r < 0 THEN 0 ELSE f[r] + Total(f, r - 1)

\* the handlers handed to Use so far, over all routers
Handed == Total(nuse, MaxBox)

Request(acts, ns) ==
    \E q \in ReqIds :
        \/ \E m \in Methods, path \in Paths : ServeHTTP(0, q, m, path)
        \/ Build(q)
        \/ \E act \in acts : Middleware(q, act)
        \/ \E act \in acts : Terminal(q, act)
        \/ \E n \in ns : ErrorHandled(q, n)
        \/ \E n \in ns : NotFound(q, n)
        \/ Finish(q)
        \/ End(q)

\* Every action, with every input.  The claims are checked under the
\* specifications below, each of which takes the actions its claims are about.
Next ==
    \/ \E r \in Routers, k \in 0..MaxArgs : Use(r, k)
    \/ \E r \in Routers, p \in Prefixes : Subrouter(r, p)
    \/ \E b \in Routers : Reset(b)
    \/ \E r \in Routers, m \in Methods, route \in RoutePaths : add(r, m, route)
    \/ \E r \in Routers, c \in Contexts : BindContext(r, c)
    \/ \E r \in Routers, t \in Engines : SetTemplateEngine(r, t)
    \/ \E r \in Routers, f \in ErrorHandlers \cup BoxErrorHandlers : SetErrorHandler(r, f)
    \/ \E r \in Routers, f \in NotFoundHandlers : SetNotFoundHandler(r, f)
    \/ \E r \in Routers, b \in BOOLEAN : SetEnableLog(r, b)
    \/ \E r \in Routers : Serve(r)
    \/ Request(Returns \cup CtxActs \cup WriteActs, Ns)
    \/ \E q \in Tasks : ContextCheck(q) \/ ContextInit(q) \/ ContextBuild(q)

Spec == Init /\ [][Next]_vars

\* The middleware chain and its failures: Use, Subrouter, routes, and
\* requests whose handlers succeed or fail.
NextChain ==
    \/ \E r \in Routers, k \in 0..MaxArgs : Handed + k <= ChainH /\ Use(r, k)
    \/ \E r \in Routers, p \in Prefixes : nbox < ChainBox /\ Subrouter(r, p)
    \/ \E r \in Routers, m \in Methods, route \in RoutePaths :
            Len(routes) < ChainRoutes /\ add(r, m, route)
    \/ Request(Returns, {1})

SpecChain == Init /\ [][NextChain]_vars

\* Subrouters and their middleware slices: longer lists and more boxes.
NextSub ==
    \/ \E r \in Routers, k \in 0..MaxArgs : Handed + k <= SubH /\ Use(r, k)
    \/ \E r \in Routers, p \in Prefixes : Subrouter(r, p)
    \/ \E b \in Routers : Reset(b)
    \/ \E r \in Routers, m \in Methods, route \in RoutePaths :
            Len(routes) < SubRoutes /\ add(r, m, route)
    \/ Request({Act("none", 0, 0, e) : e \in {"nil", "e1"}}, {1})

SpecSub == Init /\ [][NextSub]_vars

\* Prefix composition: subrouters and routes over prefixes and route paths
\* with and without a leading and a trailing slash, and empty.
PathPrefixes == {<<>>, <<"/", "a">>, <<"a">>, <<"/", "a", "/">>, <<"a", "/">>}
PathRoutes == {<<>>, <<"/", "x">>, <<"x">>, <<"/", "x", "/">>, <<"/">>}

NextPath ==
    \/ \E r \in Routers, p \in PathPrefixes : Subrouter(r, p)
    \/ \E r \in Routers, m \in Methods, route \in PathRoutes :
            Len(routes) < PathRoutesMax /\ add(r, m, route)

SpecPath == Init /\ [][NextPath]_vars

\* The configuration a subrouter copies and the router shares: the bound
\* context, the not-found handler and Serve.
NextConfig ==
    \/ \E r \in Routers, k \in 0..MaxArgs : Handed + k <= ConfigH /\ Use(r, k)
    \/ \E r \in Routers, p \in Prefixes : nbox < ConfigBox /\ Subrouter(r, p)
    \/ \E r \in Routers, m \in Methods, route \in RoutePaths :
            Len(routes) < ConfigRoutes /\ add(r, m, route)
    \/ \E r \in Routers, c \in Contexts : BindContext(r, c)
    \/ \E r \in Routers, f \in NotFoundHandlers : SetNotFoundHandler(r, f)
    \/ \E r \in Routers : Serve(r)
    \/ Request({Act("none", 0, 0, e) : e \in {"nil", "e1"}}, {1})

SpecConfig == Init /\ [][NextConfig]_vars

\* The Context methods: handlers that call Redirect and Render, with and
\* without a template engine and an access log.
NextContext ==
    \/ \E k \in 0..MaxArgs : Handed + k <= ContextH /\ Use(0, k)
    \/ \E m \in Methods, route \in RoutePaths :
            Len(routes) < ContextRoutes /\ add(0, m, route)
    \/ \E t \in Engines : SetTemplateEngine(0, t)
    \/ \E b \in BOOLEAN : SetEnableLog(0, b)
    \/ Request(Returns \cup CtxActs, Ns)

SpecContext == Init /\ [][NextContext]_vars

\* The error handler a box copies: handlers assigned to the application before
\* and after a box is made, and to boxes, and requests that fail.
NextHandler ==
    \/ \E k \in 0..MaxArgs : Handed + k <= HandlerH /\ Use(0, k)
    \/ \E r \in Routers, p \in Prefixes : nbox < HandlerBox /\ Subrouter(r, p)
    \/ \E r \in Routers, m \in Methods, route \in RoutePaths :
            Len(routes) < HandlerRoutes /\ add(r, m, route)
    \/ \E f \in ErrorHandlers : SetErrorHandler(0, f)
    \/ \E b \in Routers \ {0}, f \in BoxErrorHandlers : SetErrorHandler(b, f)
    \/ Request({Act("none", 0, 0, e) : e \in {"nil", "e1"}}, {1})

SpecHandler == Init /\ [][NextHandler]_vars

\* Routes first: every route is registered before the first Use call, so the
\* middleware a request runs was added, and removed by Reset, after the route
\* was registered.
NextLate ==
    \/ \E r \in Routers, m \in Methods, route \in RoutePaths :
            Handed = 0 /\ Len(routes) < LateRoutes /\ add(r, m, route)
    \/ \E r \in Routers, p \in Prefixes : nbox < LateBox /\ Subrouter(r, p)
    \/ \E r \in Routers, k \in 0..MaxArgs : Handed + k <= LateH /\ Use(r, k)
    \/ \E b \in Routers : Reset(b)
    \/ Request({Act("none", 0, 0, e) : e \in {"nil", "e1"}}, {1})

SpecLate == Init /\ [][NextLate]_vars

\* The access log and the response: handlers that write the header and the
\* body, themselves or through JSON and Text, that fail or not, with the
\* access log on and off.
NextLog ==
    \/ \E k \in 0..MaxArgs : Handed + k <= LogH /\ Use(0, k)
    \/ \E m \in Methods, route \in RoutePaths :
            Len(routes) < LogRoutes /\ add(0, m, route)
    \/ \E b \in BOOLEAN : SetEnableLog(0, b)
    \/ Request(Returns \cup WriteActs, Ns)

SpecLog == Init /\ [][NextLog]_vars

\* Requests served at once: two tasks through the handle of one route, with
\* and without a context bound before.
NextRace ==
    \/ \E m \in Methods, route \in RoutePaths : add(0, m, route)
    \/ \E c \in Contexts : BindContext(0, c)
    \/ \E q \in Tasks, m \in Methods, k \in 1..Len(routes) :
            ServeHTTP(0, q, m, routes[k].path)
    \/ \E q \in Tasks : ContextCheck(q)
    \/ \E q \in Tasks : ContextInit(q)
    \/ \E q \in Tasks : ContextBuild(q)
    \/ \E q \in Tasks : Terminal(q, Act("none", 0, 0, "nil"))
    \/ \E q \in Tasks : Finish(q)
    \/ \E q \in Tasks : End(q)

SpecRace == Init /\ [][NextRace]_vars

\* The one router: boxes of boxes, their routes, and requests through the
\* application.
NextRouter ==
    \/ \E r \in Routers, k \in 0..MaxArgs : Handed + k <= RouterH /\ Use(r, k)
    \/ \E r \in Routers, p \in Prefixes : nbox < RouterBox /\ Subrouter(r, p)
    \/ \E r \in Routers, m \in Methods, route \in RoutePaths :
            Len(routes) < RouterRoutes /\ add(r, m, route)
    \/ Request({Act("none", 0, 0, e) : e \in {"nil", "e1"}}, {1})

SpecRouter == Init /\ [][NextRouter]_vars

\* ---------------------------------------------------------------- claims
Finished(r) == r.pc \in {"ret", "done"} /\ r.h # 0
Failed(r) == r.failed # 0
NoRepeat(t) == \A i, j \in 1..Len(t) : t[i] = t[j] => i = j

\* the handlers handed to Use on the application, in call order
Uses == [j \in 1..nuse[0] |-> <<0, j>>]

C2_FirstFailureStops ==
    \A q \in ReqIds :
        LET r == req[q] IN
        (Finished(r) /\ Failed(r) /\ r.failed <= r.len)
            => /\ r.trace = SubSeq(MwSeq(r.w), 1, r.failed)
               /\ Len(r.ehcalls) = 1
               /\ r.ehcalls[1].ctx = q
               /\ r.ehcalls[1].err = r.last.ret
               /\ r.ehcalls[1].f = ErrorHandler[r.w]

C2_Witness ==
    \E q \in ReqIds :
        LET r == req[q] IN
        /\ r.pc = "done" /\ r.h # 0 /\ r.last.ret = "e2"
        /\ Len(r.trace) = 2 /\ Len(MwSeq(r.w)) = 3
        /\ Len(r.ehcalls) = 1

\* C3: the error handler is called at most once for a request: once when a
\* middleware or the route's handler failed, never when all succeeded or no
\* route matched; once it was called no handler runs again, the handler that
\* failed being the last one run and no handler having run twice.
C3_AtMostOneErrorHandler ==
    \A q \in ReqIds :
        LET r == req[q] IN
        /\ Len(r.ehcalls) <= 1
        /\ Finished(r) => (Len(r.ehcalls) = 1 <=> Failed(r))
        /\ r.h = 0 => r.ehcalls = <<>>
        /\ r.ehcalls # <<>> =>
              /\ r.pc \in {"ret", "done"}
              /\ r.last.ret = r.ehcalls[1].err
              /\ r.last.ret # "nil"
              /\ NoRepeat(r.trace)

C3_Witness ==
    \E q \in ReqIds :
        LET r == req[q] IN
        /\ r.pc = "done" /\ Len(r.ehcalls) = 1
        /\ r.trace # <<>> /\ r.trace[Len(r.trace)] = TermH(r.h)
        /\ Len(r.trace) = 3

\* C4: a Use call on a router changes the middleware sequence of none of the
\* subrouters made from it before: what a request to a route of such a
\* subrouter runs stays as it was.
C4_ParentUseLeavesSubrouter ==
    [][\A r \in Routers, k \in 0..MaxArgs :
          Use(r, k) => \A b \in 1..nbox : parent[b] = r => MwSeq(b)' = MwSeq(b)]_vars

\* C5: a Use call on a subrouter changes the middleware sequence neither of
\* its parent nor of a sibling made from the same parent.
C5_SubrouterUseLeavesOthers ==
    [][\A b \in Routers \ {0}, k \in 0..MaxArgs :
          Use(b, k) =>
              /\ MwSeq(parent[b])' = MwSeq(parent[b])
              /\ \A s \in (1..nbox) \ {b} :
                    parent[s] = parent[b] => MwSeq(s)' = MwSeq(s)]_vars

\* C6: a route is registered under the path-segment join of the prefixes
\* handed to Subrouter, from the application down, and the route's own path.
C6_SegmentJoinOfPrefixes ==
    \A k \in 1..Len(routes) : routes[k].path = Join(routes[k].args)

\* C7: once BindContext(c) was called on the application, the Context of every
\* request dispatched afterwards carries c, on the routes of the application and
\* on those of subrouters (that did not bind a context of their own) alike.
C7_BoundContextEverywhere ==
    \A q \in ReqIds :
        LET r == req[q] IN
        (r.h # 0 /\ r.pc \notin {"idle", "handle"} /\ r.appctx \in Contexts
              /\ (r.w = 0 \/ ~bound[r.w]))
            => r.ctx = r.appctx

\* C8: a request through the application's ServeHTTP that matches no route
\* gets the NotFoundHandler of the application when one is set and the
\* platform's otherwise, whether or not Serve was called, and runs no
\* middleware, no route handler and no error handler.
C8_CustomNotFound ==
    \A q \in ReqIds :
        LET r == req[q] IN
        (r.entry = 0 /\ r.nf # "none")
            => /\ r.nf = IF NotFoundHandler[0] # "nil" THEN NotFoundHandler[0]
                         ELSE "default"
               /\ r.trace = <<>>
               /\ r.ehcalls = <<>>

\* C9: Render returns an error, and does not panic, when the application of
\* the Context has no template engine; with one it returns what the engine's
\* Render returned.
C9_RenderWithoutEngine ==
    \A q \in ReqIds :
        LET l == req[q].last IN
        l.act.op = "Render"
            => IF l.eng = "nil" THEN l.ret \notin {"nil", "panic"}
               ELSE l.ret = l.act.res

\* C10: Redirect(url, code) with code < 300 or code > 307 returns the "invalid
\* redirect code" error and leaves the response as it was; with code in
\* 300..307 it sets the Location header, writes the header with that code, which
\* is the status of a response not committed before, and returns no error,
\* whatever the write of the body reports.
C10_RedirectCodes ==
    \A q \in ReqIds :
        LET l == req[q].last IN
        l.act.op = "Redirect"
            => IF l.act.code < 300 \/ l.act.code > 307
               THEN l.ret = "invalid redirect code" /\ l.post = l.pre
               ELSE /\ l.ret = "nil"
                    /\ l.post.loc
                    /\ l.post.wh = l.act.code
                    /\ l.pre.status = 0 => l.post.status = l.act.code
                    /\ l.post.lon => l.post.lstatus = l.act.code

C10_Witness ==
    \E q \in ReqIds :
        LET r == req[q] IN
        /\ r.pc = "done"
        /\ r.last.act.op = "Redirect" /\ r.last.act.code = 307 /\ r.last.act.n = 0
        /\ r.last.ret = "nil" /\ r.last.pre.status = 0 /\ r.rw.status = 307 /\ r.rw.loc
        /\ r.ehcalls = <<>>

\* C11: every box, at any depth, points to the router of the application, which
\* holds every route registered; a request through the application's ServeHTTP
\* for the path of a route is dispatched to that route, whichever box
\* registered it, and when no handler fails it has run the middleware list of
\* that box and then the route's handler.
C11_OneSharedRouter ==
    /\ \A b \in Live : router[b] = router[0]
    /\ \A k \in 1..Len(routes) : routes[k].rt = router[0]
    /\ \A q \in ReqIds :
          LET r == req[q] IN
          (r.pc # "idle" /\ r.entry = 0)
              => /\ \A k \in 1..Len(routes) : routes[k].path = r.path => r.h = k
                 /\ r.h # 0 => r.w = routes[r.h].w
                 /\ (Finished(r) /\ ~Failed(r))
                        => /\ Len(r.trace) = Len(MwSeq(routes[r.h].w)) + 1
                           /\ SubSeq(r.trace, 1, Len(r.trace) - 1) = MwSeq(routes[r.h].w)
                           /\ r.trace[Len(r.trace)] = TermH(r.h)

C11_Witness ==
    \E q \in ReqIds :
        LET r == req[q] IN
        /\ r.pc = "done" /\ r.entry = 0 /\ r.h # 0 /\ ~Failed(r)
        /\ r.w = 2 /\ parent[2] = 1 /\ parent[1] = 0
        /\ r.path = <<"/", "s", "/", "s", "/", "x">>
        /\ Len(r.trace) = 2

\* the handlers handed to Use on b since its last Reset, in call order
UsedSince(b) == [j \in 1..(nuse[b] - since[b]) |-> <<b, since[b] + j>>]

\* the list of a box that was Reset is what Use on it was handed since, and a
\* request to one of its routes in which no handler fails has run that list and
\* then the route's handler
AfterReset ==
    /\ \A b \in 1..nbox : since[b] >= 0 => MwSeq(b) = UsedSince(b)
    /\ \A q \in ReqIds :
          LET r == req[q] IN
          (Finished(r) /\ ~Failed(r) /\ since[r.w] >= 0)
              => r.trace = UsedSince(r.w) \o <<TermH(r.h)>>

\* C12: Reset on a box empties the middleware list of that box and leaves those
\* of its parent and of every other box as they were; from then on a request to
\* a route of the box runs only the middleware Use on the box was handed after
\* the Reset, and then the route's handler.
C12_ResetOnlyOwn ==
    [][/\ \A b \in Routers \ {0} :
             Reset(b) => /\ MwSeq(b)' = <<>>
                         /\ \A s \in Live \ {b} : MwSeq(s)' = MwSeq(s)
       /\ AfterReset']_vars

\* the access log of a request is right for where the request is: no line
\* before ServeHTTP is past the router, one line after it when ServeHTTP made
\* a responseLogger, none when it made none; and it made one exactly when
\* EnableLog is set
LogInPlace ==
    \A q \in ReqIds :
        LET r == req[q] IN
        /\ r.pc # "idle" => r.rw.lon = EnableLog[r.entry]
        /\ r.pc # "done" => r.log = <<>>
        /\ r.pc = "done" => Len(r.log) = IF r.rw.lon THEN 1 ELSE 0

\* C13: with EnableLog set every request ServeHTTP takes gets exactly one
\* access-log line, written after the router returned (middleware, the
\* route's handler, the error handler or the not-found handler are over);
\* with EnableLog not set it gets none and its response writer is not wrapped.
C13_OneLogLine ==
    [][/\ LogInPlace'
       /\ \A q \in ReqIds :
             End(q) => Len(req[q].log) = IF EnableLog[req[q].entry] THEN 1 ELSE 0]_vars

\* the status the client gets: the one committed, and the 200 the server
\* sends for a handler that returned without writing
ClientStatus(rw) == IF rw.status = 0 THEN StatusOK ELSE rw.status

\* C14: the status of the access-log line of a request is the status the
\* client got, whatever WriteHeader and Write calls were made in the request.
C14_LogStatusIsClientStatus ==
    \A q \in ReqIds :
        LET r == req[q] IN
        r.log # <<>> => r.log[1].status = ClientStatus(r.rw)

\* C15: the size of the access-log line of a request is the sum of the bytes
\* the server reported written over the Write calls of the request, by
\* middleware, the route's handler and the error or not-found handler; the
\* count of a request starts at 0.
C15_LogSizeIsBytesWritten ==
    \A q \in ReqIds :
        LET r == req[q] IN
        /\ r.pc \in {"handle", "notfound"} => r.rw.lsize = 0 /\ r.rw.bytes = 0
        /\ r.rw.lon => r.rw.lsize = r.rw.bytes
        /\ r.log # <<>> => r.log[1].size = r.rw.bytes

C15_Witness ==
    \E q \in ReqIds :
        LET r == req[q] IN
        /\ r.pc = "done" /\ r.log # <<>> /\ r.log[1].size = 3
        /\ Len(r.trace) = 2 /\ Len(r.ehcalls) = 1
        /\ r.last.act.op = "Write" /\ r.last.pre.bytes = 1

\* two tasks are at accesses of one field of a router of which one is a write
DataRace ==
    \E p, q \in Tasks :
        /\ p # q /\ req[p].w = req[q].w
        /\ req[p].pc = "lazy" /\ req[q].pc \in {"handle", "lazy", "ctx"}

\* C16: while requests are served, at once or not, no step of the dispatch
\* changes a field of the application or of a box, and a step of a task changes
\* the request state of no other task; so no two tasks are ever at accesses of
\* one shared field of which one is a write.  BindContext need not have been
\* called.
C16_DispatchWritesNothingShared ==
    [][/\ (\E q \in Tasks : req[q].pc # "idle") => UNCHANGED cfgvars
       /\ \A p, q \in Tasks : (p # q /\ req'[q] # req[q]) => req'[p] = req[p]
       /\ ~DataRace']_vars

\* C17: JSON(code, v) sets the Content-Type to application/json, then writes
\* the header with code, then serializes: on a response not committed before,
\* code and that Content-Type are what the client gets whether or not the
\* serialization fails, and the status stays code through the error handler
\* that gets the failure; JSON returns what the serialization returned.
C17_JSONCommitsThenSerializes ==
    \A q \in ReqIds :
        LET r == req[q]
            l == r.last
        IN  l.act.op = "JSON"
              => /\ l.ret = l.act.res
                 /\ l.post.ct = "application/json"
                 /\ l.post.wh = l.act.code
                 /\ l.pre.status = 0
                       => /\ l.post.status = l.act.code
                          /\ l.post.sent = "application/json"
                          /\ r.rw.status = l.act.code
                          /\ r.rw.sent = "application/json"

C17_Witness ==
    \E q \in ReqIds :
        LET r == req[q] IN
        /\ r.pc = "done" /\ r.last.act.op = "JSON" /\ r.last.act.code = 201
        /\ r.last.ret = "e1" /\ r.last.pre.status = 0
        /\ Len(r.ehcalls) = 1 /\ r.ehcalls[1].f = "default"
        /\ r.rw.wh = StatusInternalServerError /\ r.rw.status = 201

\* C18: a request runs the middleware list the router R of its route holds
\* when the request is dispatched, not the one R held when the route was
\* registered.  With every route registered before the first Use call: a
\* request in which no handler fails has run the list R holds and then the
\* route's handler, every handler Use on R was handed (since the last Reset of
\* R) among them, and none that Use on R was handed before the last Reset.
C18_ChainAtRequestTime ==
    \A q \in ReqIds :
        LET r == req[q]
            ran(j) == \E i \in 1..Len(r.trace) : r.trace[i] = <<r.w, j>>
            first == IF since[r.w] >= 0 THEN since[r.w] + 1 ELSE 1
        IN  (Finished(r) /\ ~Failed(r))
              => /\ r.trace = MwSeq(r.w) \o <<TermH(r.h)>>
                 /\ \A j \in first..nuse[r.w] : ran(j)
                 /\ \A j \in 1..(first - 1) : ~ran(j)

\* C19: a box holds a copy of the error handler its parent held when Subrouter
\* made it; an assignment to the ErrorHandler of a router changes the handler of
\* no other router, the boxes made from it before included; and the failure of
\* a request to a route of a box goes to the handler that box holds.
C19_OwnErrorHandler ==
    [][/\ \A r \in Routers, p \in Prefixes :
             Subrouter(r, p) => ErrorHandler'[nbox'] = ErrorHandler[r]
       /\ \A r \in Routers, f \in ErrorHandlers \cup BoxErrorHandlers :
             SetErrorHandler(r, f) =>
                 \A b \in Routers \ {r} : ErrorHandler'[b] = ErrorHandler[b]
       /\ \A q \in ReqIds :
             req'[q].ehcalls # <<>> =>
                 req'[q].ehcalls[1].f = ErrorHandler'[req'[q].w]]_vars

\* a failed request to a route of a box went to the handler the application
\* held when the box was made, not to the one assigned to it since
C19_Witness ==
    \E q \in ReqIds :
        LET r == req[q] IN
        /\ r.pc = "done" /\ r.w = 1 /\ Len(r.ehcalls) = 1
        /\ r.ehcalls[1].f = "eh1" /\ r.ehcalls[1].err = "e1"
        /\ ErrorHandler[1] = "eh1" /\ ErrorHandler[0] = "default"

====
